---- MODULE Spec2Model ----
\* A model of packages/bootstrap/extra/dcos_internal_utils/cli.py: the atomic
\* file writer (_write_file_bytes) at system-call granularity, and the
\* bootstrap dispatcher (main) with its handlers.
EXTENDS Integers, Sequences, FiniteSets, TLC

VARIABLES
    inodes,     \* the files that exist: sequence of [data, mode, owner], by inode number
    dest,       \* inode linked at the destination path, 0 when the path is absent
    tmps,       \* inodes linked under a mkstemp name in the destination directory
    prior,      \* the destination's content before any writer ran (<<"absent">> or <<"data", bytes>>)
    wpc,        \* per writer: position inside _write_file_bytes
    wdata,      \* per writer: the `data` argument
    wmode,      \* per writer: the `mode` argument
    wtmp,       \* per writer: inode of its temporary file, 0 before mkstemp
    wfd,        \* per writer: the descriptor returned by mkstemp is open
    wexc,       \* per writer: the exception that is propagating ("none" when none)
    worig,      \* per writer: the first exception raised by a step of this call
    wrm,        \* per writer: os.remove(tmpfile_path) was called
    rino,       \* reader: inode it holds open, 0 when none
    rseen,      \* reader: its last observation of the destination path
    pc,         \* main: position in main()
    uid,        \* os.getuid() of the process
    umask,      \* the process's file-creation mask
    services,   \* opts.services, the requested service names in order
    dirs0,      \* the directories as they were when the process started
    rolesDir,   \* entries of /opt/mesosphere/etc/roles
    rolesEdited,\* another process has changed the role-marker directory during the run
    proxyEnv,   \* proxy variables present in os.environ
    env,        \* os.environ: the values of MASTER_SOURCE and EXHIBITOR_ADDRESS
    envRead,    \* the names of env the process has read with os.getenv
    masterList, \* the JSON array in /opt/mesosphere/etc/master_list
    zkArg,      \* the --zk argument on the command line ("" when not given)
    zkDefault,  \* get_zookeeper_address() result
    zk,         \* opts.zk
    idx,        \* index into opts.services of the service being processed
    hpc,        \* position inside the running handler's body (0 when none runs)
    branch,     \* branch taken by dcos_net in the running handler ("none" otherwise)
    trace,      \* what the process has done so far, in order
    exitStatus, \* exit status of the process, -1 while it runs
    dirs,       \* directories: path -> [exists, mode, owner]
    resp,       \* the response of the JWKS request in the running handler
    pem         \* pubkey_pem_bytes in the running handler

wvars == <<inodes, dest, tmps, prior, wpc, wdata, wmode, wtmp, wfd, wexc, worig, wrm>>
rvars == <<rino, rseen>>

----------------------------------------------------------------------------
\* Bounds of the model.

\* Longest byte buffer handed to _write_file_bytes by the test callers.
MaxLen == 2

\* The two independent invocations that may race on one destination path.
Writers == {1, 2}

\* Mode arguments: 0o644 and 0o100640 (a st_mode value with file-type bits).
WriterModes == {420, 33184}

\* The buffer writer w is called with: n bytes, each of value w.
Buf(w, n) == [i \in 1..n |-> w]

\* Content of a destination file that exists before the run.
OldContent == <<0, 0>>

----------------------------------------------------------------------------
\* Files.

\* stat.S_IMODE(mode): the low twelve bits.
S_IMODE(m) == m % 4096

\* The nine rwx permission bits of a mode.
PermBits(m) == m % 512

\* tempfile.mkstemp creates the file with mode 0o600, owned by the caller.
MkstempMode == 384

NewFile(owner) == [data |-> <<>>, mode |-> MkstempMode, owner |-> owner]

Prefix(s, n) == SubSeq(s, 1, n)

\* The byte counts os.write(fd, data) may return: POSIX allows a write to a
\* regular file to accept fewer bytes than requested; the count is at least
\* one for a non-empty buffer.
OsWriteCounts(data) == IF Len(data) = 0 THEN {0} ELSE 1..Len(data)

\* What reading the destination path yields at this moment.
DestContent == IF dest = 0 THEN <<"absent">> ELSE <<"data", inodes[dest].data>>

----------------------------------------------------------------------------
\* _write_file_bytes(path, data, mode), one action per system call.

\* A caller enters _write_file_bytes (line 271).
WCall(w, data, mode) ==
    /\ wpc[w] = "idle"
    /\ wpc' = [wpc EXCEPT ![w] = "mkstemp"]
    /\ wdata' = [wdata EXCEPT ![w] = data]
    /\ wmode' = [wmode EXCEPT ![w] = mode]
    /\ wtmp' = [wtmp EXCEPT ![w] = 0]
    /\ wfd' = [wfd EXCEPT ![w] = FALSE]
    /\ wexc' = [wexc EXCEPT ![w] = "none"]
    /\ worig' = [worig EXCEPT ![w] = "none"]
    /\ wrm' = [wrm EXCEPT ![w] = FALSE]
    /\ UNCHANGED <<inodes, dest, tmps, prior>>

\* Line 291: tempfile.mkstemp(prefix=basename, dir=tmpfile_dir). It is outside
\* the try block: when it raises, nothing was created and nothing is removed.
WMkstemp(w) ==
    /\ wpc[w] = "mkstemp"
    /\ \/ /\ inodes' = Append(inodes, NewFile("root"))
          /\ tmps' = tmps \cup {Len(inodes) + 1}
          /\ wtmp' = [wtmp EXCEPT ![w] = Len(inodes) + 1]
          /\ wfd' = [wfd EXCEPT ![w] = TRUE]
          /\ wpc' = [wpc EXCEPT ![w] = "write"]
          /\ UNCHANGED <<wexc, worig>>
       \/ /\ wexc' = [wexc EXCEPT ![w] = "mkstemp"]
          /\ worig' = [worig EXCEPT ![w] = "mkstemp"]
          /\ wpc' = [wpc EXCEPT ![w] = "raised"]
          /\ UNCHANGED <<inodes, tmps, wtmp, wfd>>
    /\ UNCHANGED <<dest, prior, wdata, wmode, wrm>>

\* The file content after os.write(fd, data) returned n: the return value is
\* not looked at (line 295), so the n accepted bytes are all the file gets.
WrittenData(data, n) == Prefix(data, n)

\* Line 295: os.write(fd, data); the finally clause (line 297) runs next
\* whether it returns or raises.
WWrite(w) ==
    /\ wpc[w] = "write"
    /\ \/ \E n \in OsWriteCounts(wdata[w]) :
            /\ inodes' = [inodes EXCEPT ![wtmp[w]].data = WrittenData(wdata[w], n)]
            /\ UNCHANGED <<wexc, worig>>
       \/ /\ wexc' = [wexc EXCEPT ![w] = "write"]
          /\ worig' = [worig EXCEPT ![w] = "write"]
          /\ UNCHANGED inodes
    /\ wpc' = [wpc EXCEPT ![w] = "close"]
    /\ UNCHANGED <<dest, tmps, prior, wdata, wmode, wtmp, wfd, wrm>>

\* Line 297: os.close(fd) in the finally clause. An exception raised here
\* replaces the one the write raised.
WClose(w) ==
    /\ wpc[w] = "close"
    /\ wfd' = [wfd EXCEPT ![w] = FALSE]
    /\ \/ /\ wpc' = [wpc EXCEPT ![w] = IF wexc[w] = "none" THEN "chmod" ELSE "except"]
          /\ UNCHANGED <<wexc, worig>>
       \/ /\ wexc' = [wexc EXCEPT ![w] = "close"]
          /\ worig' = [worig EXCEPT ![w] = IF worig[w] = "none" THEN "close" ELSE worig[w]]
          /\ wpc' = [wpc EXCEPT ![w] = "except"]
    /\ UNCHANGED <<inodes, dest, tmps, prior, wdata, wmode, wtmp, wrm>>

\* Line 298: os.chmod(tmpfile_path, stat.S_IMODE(mode)).
WChmod(w) ==
    /\ wpc[w] = "chmod"
    /\ \/ /\ inodes' = [inodes EXCEPT ![wtmp[w]].mode = S_IMODE(wmode[w])]
          /\ wpc' = [wpc EXCEPT ![w] = "replace"]
          /\ UNCHANGED <<wexc, worig>>
       \/ /\ wexc' = [wexc EXCEPT ![w] = "chmod"]
          /\ worig' = [worig EXCEPT ![w] = "chmod"]
          /\ wpc' = [wpc EXCEPT ![w] = "except"]
          /\ UNCHANGED inodes
    /\ UNCHANGED <<dest, tmps, prior, wdata, wmode, wtmp, wfd, wrm>>

\* Line 299: os.replace(tmpfile_path, path): one atomic rename; on failure the
\* destination is untouched.
WReplace(w) ==
    /\ wpc[w] = "replace"
    /\ \/ /\ dest' = wtmp[w]
          /\ tmps' = tmps \ {wtmp[w]}
          /\ wpc' = [wpc EXCEPT ![w] = "returned"]
          /\ UNCHANGED <<wexc, worig>>
       \/ /\ wexc' = [wexc EXCEPT ![w] = "replace"]
          /\ worig' = [worig EXCEPT ![w] = "replace"]
          /\ wpc' = [wpc EXCEPT ![w] = "except"]
          /\ UNCHANGED <<dest, tmps>>
    /\ UNCHANGED <<inodes, prior, wdata, wmode, wtmp, wfd, wrm>>

\* The exception that leaves the except clause when os.remove raised inside
\* it: the one os.remove raised (the pending one becomes its __context__).
ExcAfterFailedRemove(pending) == "remove"

\* The exception is re-raised without removing the temporary file.
WExcept_NoRemove(w) ==
    /\ wpc[w] = "except"
    /\ wpc' = [wpc EXCEPT ![w] = "raised"]
    /\ UNCHANGED <<inodes, dest, tmps, prior, wdata, wmode, wtmp, wfd, wexc, worig, wrm>>

\* Lines 300-302: except Exception: os.remove(tmpfile_path); raise.
WExcept(w) ==
    /\ wpc[w] = "except"
    /\ wrm' = [wrm EXCEPT ![w] = TRUE]
    /\ \/ /\ tmps' = tmps \ {wtmp[w]}
          /\ UNCHANGED wexc
       \/ /\ wexc' = [wexc EXCEPT ![w] = ExcAfterFailedRemove(wexc[w])]
          /\ UNCHANGED tmps
    /\ wpc' = [wpc EXCEPT ![w] = "raised"]
    /\ UNCHANGED <<inodes, dest, prior, wdata, wmode, wtmp, wfd, worig>>

\* The writing process is interrupted (killed) between two system calls.
WKill(w) ==
    /\ wpc[w] \in {"mkstemp", "write", "close", "chmod", "replace", "except"}
    /\ wpc' = [wpc EXCEPT ![w] = "killed"]
    /\ wfd' = [wfd EXCEPT ![w] = FALSE]
    /\ UNCHANGED <<inodes, dest, tmps, prior, wdata, wmode, wtmp, wexc, worig, wrm>>

WStep(w) ==
    \/ WMkstemp(w)
    \/ WWrite(w)
    \/ WClose(w)
    \/ WChmod(w)
    \/ WReplace(w)
    \/ WExcept(w)

----------------------------------------------------------------------------
\* A concurrent reader of the destination path: open, then read.

ROpen ==
    /\ rino = 0
    /\ IF dest = 0
         THEN /\ rseen' = <<"absent">>
              /\ UNCHANGED rino
         ELSE /\ rino' = dest
              /\ UNCHANGED rseen

RRead ==
    /\ rino # 0
    /\ rseen' = <<"data", inodes[rino].data>>
    /\ rino' = 0

----------------------------------------------------------------------------
\* The state before any writer ran.

WInit ==
    /\ \/ /\ inodes = <<>>
          /\ dest = 0
          /\ prior = <<"absent">>
       \/ /\ inodes = <<[data |-> OldContent, mode |-> 420, owner |-> "root"]>>
          /\ dest = 1
          /\ prior = <<"data", OldContent>>
    /\ tmps = {}
    /\ wpc = [w \in Writers |-> "idle"]
    /\ wdata = [w \in Writers |-> <<>>]
    /\ wmode = [w \in Writers |-> 0]
    /\ wtmp = [w \in Writers |-> 0]
    /\ wfd = [w \in Writers |-> FALSE]
    /\ wexc = [w \in Writers |-> "none"]
    /\ worig = [w \in Writers |-> "none"]
    /\ wrm = [w \in Writers |-> FALSE]

RInit ==
    /\ rino = 0
    /\ rseen = <<"none">>

cfgv == <<uid, umask, services, dirs0, env, masterList, zkArg>>
envv == <<rolesDir, rolesEdited, proxyEnv, envRead>>
optv == <<zkDefault, zk>>
hndv == <<branch, resp, pem>>
mvars == <<pc, idx, hpc, trace, exitStatus, dirs, cfgv, envv, optv, hndv>>

vars == <<wvars, rvars, mvars>>

----------------------------------------------------------------------------
\* Inputs of a run of the dispatcher.

\* Longest list of service names given on the command line.
MaxServices == 2

\* Longest static master list file.
MaxMasters == 2

\* Role markers that may be present in /opt/mesosphere/etc/roles.
RoleNames == {"master", "slave", "slave_public"}

\* Values of MASTER_SOURCE and EXHIBITOR_ADDRESS ("" stands for unset:
\* os.getenv returns None, which is falsy and differs from 'master_list').
MasterSourceValues == {"", "master_list", "exhibitor"}
ExhibitorValues == {"", "10.0.0.9"}
EnvNames == {"MASTER_SOURCE", "EXHIBITOR_ADDRESS"}

\* The master list files: the first n of these hosts.
MasterHosts == <<"10.0.0.1", "10.0.0.2", "10.0.0.3", "10.0.0.4">>
MasterLists == {SubSeq(MasterHosts, 1, n) : n \in 0..MaxMasters}

\* --zk given on the command line, or not ("").
ZkOverrides == {"", "10.1.1.1:2181"}

\* The uid of root, and of some other user.
Uids == {0, 1000}

\* The umask of the process: 0o022 or 0o077.
Umasks == {18, 63}

----------------------------------------------------------------------------
\* The registry (lines 169-192) and the privilege gate (lines 50-56).

bootstrappers == [s \in
    {"dcos-adminrouter", "dcos-bouncer", "dcos-signal", "dcos-diagnostics-master",
     "dcos-diagnostics-agent", "dcos-checks-master", "dcos-checks-agent",
     "dcos-fluent-bit-master", "dcos-fluent-bit-agent", "dcos-marathon",
     "dcos-mesos-master", "dcos-mesos-slave", "dcos-mesos-slave-public",
     "dcos-cosmos", "dcos-cockroach", "dcos-cockroach-config-change",
     "dcos-metronome", "dcos-mesos-dns", "dcos-net", "dcos-telegraf-master",
     "dcos-telegraf-agent", "dcos-ui-update-service"} |->
    CASE s = "dcos-adminrouter" -> "dcos_adminrouter"
      [] s = "dcos-bouncer" -> "dcos_bouncer"
      [] s = "dcos-signal" -> "dcos_signal"
      [] s = "dcos-cockroach-config-change" -> "dcos_cockroach_config_change"
      [] s = "dcos-net" -> "dcos_net"
      [] s = "dcos-telegraf-master" -> "dcos_telegraf_master"
      [] s = "dcos-telegraf-agent" -> "dcos_telegraf_agent"
      [] OTHER -> "noop"]

\* The handlers defined under the @check_root decorator: every one but noop
\* (line 165).
Decorated(h) == h # "noop"

\* check_root's wrapper lets the call through (line 52).
check_root(h, u) == Decorated(h) => u = 0

\* The service names the model passes on the command line: one per handler,
\* one no-op service and one name that is not in the registry.
ServiceInputs ==
    {"dcos-adminrouter", "dcos-bouncer", "dcos-cockroach-config-change",
     "dcos-net", "dcos-signal", "dcos-telegraf-master", "dcos-telegraf-agent",
     "dcos-marathon", "bogus-service"}

ServiceLists == UNION {[1..n -> ServiceInputs] : n \in 1..MaxServices}

\* The body of each handler as the sequence of its steps.
Steps(h) ==
    CASE h = "dcos_adminrouter" ->
            <<"cluster_id", "requests_get", "decode", "makedirs", "write_call",
              "write_return", "chown_file">>
      [] h = "dcos_signal" -> <<"cluster_id">>
      [] h = "dcos_telegraf_master" -> <<"cluster_id">>
      [] h = "dcos_telegraf_agent" -> <<"cluster_id">>
      [] h = "dcos_net" -> <<"get_roles", "cluster_id">>
      [] h = "dcos_bouncer" ->
            <<"makedirs", "chown_run", "exec_mkdir", "mkdir", "chmod", "chown">>
      [] h = "dcos_cockroach_config_change" ->
            <<"exec_mkdir", "mkdir", "chmod", "chown">>
      [] OTHER -> <<>>

\* The user a handler provisions for.
UserOf(h) ==
    CASE h = "dcos_adminrouter" -> "dcos_adminrouter"
      [] h = "dcos_bouncer" -> "dcos_bouncer"
      [] h = "dcos_cockroach_config_change" -> "dcos_cockroach"
      [] OTHER -> "root"

\* Directories.
ExecDir == "/var/lib/dcos/exec"
\* Lines 143 and 161: _known_exec_directory() / user.
PrivateDir(user) == ExecDir \o "/" \o user
RunDir(h) == IF h = "dcos_bouncer" THEN "/run/dcos/dcos-bouncer"
                                   ELSE "/run/dcos/dcos-adminrouter"
DirNames == {ExecDir, PrivateDir("dcos_bouncer"), PrivateDir("dcos_cockroach"),
             "/run/dcos/dcos-bouncer", "/run/dcos/dcos-adminrouter"}

NoDir == [exists |-> FALSE, mode |-> 0, owner |-> ""]

\* a AND b on the bits of two naturals.
RECURSIVE BitAnd(_, _)
BitAnd(a, b) ==
    IF a = 0 \/ b = 0 THEN 0
    ELSE (a % 2) * (b % 2) + 2 * BitAnd(a \div 2, b \div 2)

\* mkdir(mode=0o777) under a umask: the mode of the new directory.
MkdirMode(mask) == BitAnd(511, 511 - mask)

\* An existing directory is given the mode and owner of a new one.
Mkdir_Reset(d, mask) == [exists |-> TRUE, mode |-> MkdirMode(mask), owner |-> "root"]

\* mkdir(exist_ok=True): creates the directory when absent, leaves an
\* existing one as it is.
Mkdir(d, mask) ==
    IF d.exists THEN d
    ELSE [exists |-> TRUE, mode |-> MkdirMode(mask), owner |-> "root"]

\* The mode _create_private_directory sets (line 46): 0o700.
PrivateMode == 448

\* The mode dcos_adminrouter writes the key file with (line 95): 0o644.
KeyFileMode == 420

----------------------------------------------------------------------------
\* Address resolution (lines 226-250).

Loopback == "127.0.0.1:2181"
FiveHosts == "zk-1.zk:2181,zk-2.zk:2181,zk-3.zk:2181,zk-4.zk:2181,zk-5.zk:2181"

\* The single address is preferred to the static list.
get_zookeeper_address_agent_AddressFirst(ms, ea, pick) ==
    IF ea # "" THEN ea \o ":2181"
    ELSE IF ms = "master_list" THEN pick \o ":2181"
    ELSE FiveHosts

\* get_zookeeper_address_agent, given the values os.getenv returns and the
\* entry random.choice picks.
get_zookeeper_address_agent(ms, ea, pick) ==
    IF ms = "master_list" THEN pick \o ":2181"
    ELSE IF ea # "" THEN ea \o ":2181"
    ELSE FiveHosts

\* The variables get_zookeeper_address_agent reads: EXHIBITOR_ADDRESS only
\* when MASTER_SOURCE does not select the static list.
EnvRead(ms) == IF ms = "master_list" THEN {"MASTER_SOURCE"}
                                     ELSE {"MASTER_SOURCE", "EXHIBITOR_ADDRESS"}

\* The choice always falls on the first entry of the list.
Picks_First(ms, ml) ==
    IF ms = "master_list" THEN {ml[k] : k \in (1..Len(ml)) \cap {1}} ELSE {""}

\* The entries random.choice(master_list) may return (line 232); no list is
\* read outside static-list mode.
Picks(ms, ml) == IF ms = "master_list" THEN {ml[k] : k \in 1..Len(ml)} ELSE {""}

\* Which rule of get_zookeeper_address applies to a role set.
RoleRule(roles) ==
    IF "master" \in roles THEN "master"
    ELSE IF "slave" \in roles \/ "slave_public" \in roles THEN "agent"
    ELSE "unknown"

\* One entry of the trace: what was done, for which service index (0: by main
\* itself), with which argument; r is the listing a get_roles call returned.
Event(e, i, a) == [ev |-> e, i |-> i, a |-> a, r |-> {}]
RolesEvent(i, caller, roles) == [ev |-> "get_roles", i |-> i, a |-> caller, r |-> roles]

\* sys.exit(status), or an exception nobody catches (status 1).
Exit(status, why, events) ==
    /\ pc' = "exited"
    /\ exitStatus' = status
    /\ trace' = trace \o events \o <<Event("exit", idx, why)>>

----------------------------------------------------------------------------
\* main(), lines 199-223.

\* get_roles() (line 196): the listing of the role-marker directory now.
get_roles == rolesDir

\* Line 200: parse_args() -> get_zookeeper_address() (lines 241-250), then
\* argparse takes --zk or the default (lines 259-262).
ParseArgs ==
    /\ pc = "parse_args"
    /\ LET roles == get_roles
           ms == env["MASTER_SOURCE"]
           ea == env["EXHIBITOR_ADDRESS"]
           read == <<RolesEvent(0, "get_zookeeper_address", roles)>>
           done(zkd) ==
              /\ zkDefault' = zkd
              /\ zk' = IF zkArg = "" THEN zkd ELSE zkArg
              /\ pc' = "clear_proxy"
              /\ trace' = trace \o read
              /\ UNCHANGED exitStatus
       IN CASE RoleRule(roles) = "master" ->
                 /\ done(Loopback)
                 /\ UNCHANGED envRead
            [] RoleRule(roles) = "agent" ->
                 /\ envRead' = envRead \cup EnvRead(ms)
                 /\ IF ms = "master_list" /\ Len(masterList) = 0
                    THEN /\ Exit(1, "AssertionError", read)
                         /\ UNCHANGED <<zkDefault, zk>>
                    ELSE \E pick \in Picks(ms, masterList) :
                           done(get_zookeeper_address_agent(ms, ea, pick))
            [] OTHER ->
                 /\ Exit(1, "Exception: Unknown role", read)
                 /\ UNCHANGED <<zkDefault, zk, envRead>>
    /\ UNCHANGED <<idx, hpc, dirs, cfgv, rolesDir, rolesEdited, proxyEnv, hndv>>
    /\ UNCHANGED <<wvars, rvars>>

\* Lines 207-210: the proxy variables are popped from os.environ.
ClearProxy ==
    /\ pc = "clear_proxy"
    /\ proxyEnv' = {}
    /\ trace' = Append(trace, Event("clear_proxy", 0, ""))
    /\ pc' = "role_check"
    /\ UNCHANGED <<idx, hpc, exitStatus, dirs, cfgv, rolesDir, rolesEdited, envRead,
                   optv, hndv>>
    /\ UNCHANGED <<wvars, rvars>>

\* The wait is done whatever the role.
WaitsForExhibitor_Always(roles) == TRUE

\* The condition of line 212.
WaitsForExhibitor(roles) == "master" \in roles

\* Line 212: if 'master' in get_roles().
RoleCheck ==
    /\ pc = "role_check"
    /\ trace' = Append(trace, RolesEvent(0, "main", get_roles))
    /\ pc' = IF WaitsForExhibitor(get_roles) THEN "wait" ELSE "open_session"
    /\ UNCHANGED <<idx, hpc, exitStatus, dirs, cfgv, envv, optv, hndv>>
    /\ UNCHANGED <<wvars, rvars>>

\* Line 213: exhibitor.wait(opts.master_count) returns.
ExhibitorWait ==
    /\ pc = "wait"
    /\ trace' = Append(trace, Event("exhibitor_wait", 0, ""))
    /\ pc' = "open_session"
    /\ UNCHANGED <<idx, hpc, exitStatus, dirs, cfgv, envv, optv, hndv>>
    /\ UNCHANGED <<wvars, rvars>>

\* Line 215: b = bootstrap.Bootstrapper(opts.zk).
OpenSession ==
    /\ pc = "open_session"
    /\ trace' = Append(trace, Event("Bootstrapper", 0, zk))
    /\ pc' = "loop"
    /\ idx' = 1
    /\ UNCHANGED <<hpc, exitStatus, dirs, cfgv, envv, optv, hndv>>
    /\ UNCHANGED <<wvars, rvars>>

\* The loop is over: main returns and the process exits with status 0.
MainReturn ==
    /\ pc = "loop"
    /\ idx > Len(services)
    /\ Exit(0, "return", <<>>)
    /\ UNCHANGED <<idx, hpc, dirs, cfgv, envv, optv, hndv>>
    /\ UNCHANGED <<wvars, rvars>>

\* An unknown name is logged and skipped, and the loop goes on.
UnknownService_Skip ==
    /\ pc = "loop"
    /\ idx <= Len(services)
    /\ services[idx] \notin DOMAIN bootstrappers
    /\ trace' = Append(trace, Event("log.error", idx, "Unknown service"))
    /\ idx' = idx + 1
    /\ UNCHANGED <<pc, hpc, exitStatus, dirs, cfgv, envv, optv, hndv>>
    /\ UNCHANGED <<wvars, rvars>>

\* Lines 218-220: the name is not in the registry.
UnknownService ==
    /\ pc = "loop"
    /\ idx <= Len(services)
    /\ services[idx] \notin DOMAIN bootstrappers
    /\ Exit(1, "sys.exit", <<Event("log.error", idx, "Unknown service")>>)
    /\ UNCHANGED <<idx, hpc, dirs, cfgv, envv, optv, hndv>>
    /\ UNCHANGED <<wvars, rvars>>

\* Line 221: utils.apply_service_configuration(service).
ApplyServiceConfiguration ==
    /\ pc = "loop"
    /\ idx <= Len(services)
    /\ services[idx] \in DOMAIN bootstrappers
    /\ trace' = Append(trace, Event("apply_service_configuration", idx, services[idx]))
    /\ pc' = "invoke"
    /\ UNCHANGED <<idx, hpc, exitStatus, dirs, cfgv, envv, optv, hndv>>
    /\ UNCHANGED <<wvars, rvars>>

\* The handler running, when one is.
Handler == bootstrappers[services[idx]]

\* What happens after step k of the running handler's body returned: the next
\* step, or the handler returns and the loop goes on with the next name.
AfterStep(events) ==
    /\ trace' = trace \o events \o
                (IF hpc = Len(Steps(Handler))
                   THEN <<Event("handler_returned", idx, services[idx])>> ELSE <<>>)
    /\ IF hpc = Len(Steps(Handler))
         THEN /\ hpc' = 0
              /\ idx' = idx + 1
              /\ pc' = "loop"
         ELSE /\ hpc' = hpc + 1
              /\ UNCHANGED <<idx, pc>>
    /\ UNCHANGED exitStatus

\* Line 223: bootstrappers[service](b, opts). For a decorated handler this is
\* check_root's wrapper (lines 51-55); noop returns at once.
Invoke ==
    /\ pc = "invoke"
    /\ LET h == Handler
           call == <<Event("invoke", idx, services[idx])>>
       IN IF ~check_root(h, uid)
          THEN /\ Exit(1, "sys.exit",
                       call \o <<Event("log.error", idx, "bootstrap must be run as root")>>)
               /\ UNCHANGED <<idx, hpc>>
          ELSE IF Steps(h) = <<>>
          THEN /\ trace' = trace \o call \o <<Event("handler_returned", idx, services[idx])>>
               /\ idx' = idx + 1
               /\ pc' = "loop"
               /\ UNCHANGED <<hpc, exitStatus>>
          ELSE /\ trace' = trace \o call
               /\ hpc' = 1
               /\ pc' = "handler"
               /\ UNCHANGED <<idx, exitStatus>>
    /\ UNCHANGED <<dirs, cfgv, envv, optv, hndv>>
    /\ UNCHANGED <<wvars, rvars>>

----------------------------------------------------------------------------
\* The handlers' bodies, one action per call.

AtStep(name) ==
    /\ pc = "handler"
    /\ hpc >= 1
    /\ Steps(Handler)[hpc] = name

\* The branch is taken on the agent marker instead of the master marker.
NetBranch_Slave(roles) == IF "slave" \in roles THEN "agent" ELSE "master"

\* dcos_net (lines 116-119): the branch on the role set read now.
NetBranch(roles) == IF "master" \in roles THEN "master" ELSE "agent"

dcos_net ==
    /\ AtStep("get_roles")
    /\ branch' = NetBranch(get_roles)
    /\ AfterStep(<<RolesEvent(idx, "dcos_net", get_roles)>>)
    /\ UNCHANGED <<dirs, cfgv, envv, optv, resp, pem>>
    /\ UNCHANGED <<wvars, rvars>>

\* No handler derives the identifier read-only.
ReadOnly_Never(h, br) == FALSE

\* The readonly argument of the handler's b.cluster_id call (lines 61, 101,
\* 106, 111, 124, 129).
ReadOnly(h, br) ==
    \/ h = "dcos_telegraf_agent"
    \/ h = "dcos_net" /\ br = "agent"

cluster_id ==
    /\ AtStep("cluster_id")
    /\ AfterStep(<<Event("cluster_id", idx,
                         IF ReadOnly(Handler, branch) THEN "readonly" ELSE "")>>)
    /\ branch' = "none"
    /\ UNCHANGED <<dirs, cfgv, envv, optv, resp, pem>>
    /\ UNCHANGED <<wvars, rvars>>

\* The answers of the authority endpoint: a status and the `keys` array,
\* each key with its modulus n and exponent e (-1: the field is missing).
Key(n, e) == [n |-> n, e |-> e]
NoResp == [status |-> 0, keys |-> <<>>]
JwksResponses ==
    {[status |-> 500, keys |-> <<>>],
     [status |-> 200, keys |-> <<>>],
     [status |-> 200, keys |-> <<Key(35, 3)>>],
     [status |-> 200, keys |-> <<Key(33, 5), Key(35, 3)>>],
     [status |-> 200, keys |-> <<Key(-1, 3)>>],
     [status |-> 200, keys |-> <<Key(35, -1)>>]}

\* Lines 84-91: the public key bytes of (n, e).
PublicPem(n, e) == <<45, n, e>>

\* Lines 67-71: the single request, and the exit on a status other than 200.
requests_get ==
    /\ AtStep("requests_get")
    /\ \E r \in JwksResponses :
         /\ resp' = r
         /\ IF r.status # 200
            THEN /\ Exit(1, "sys.exit",
                         <<Event("requests.get", idx, "failed"),
                           Event("log.info", idx, "JWKS retrieval failed")>>)
                 /\ UNCHANGED <<idx, hpc>>
            ELSE AfterStep(<<Event("requests.get", idx, "200")>>)
    /\ UNCHANGED <<dirs, cfgv, envv, optv, branch, pem>>
    /\ UNCHANGED <<wvars, rvars>>

\* No field of a key is ever found missing.
MissingField_Never(key) == FALSE

\* Lines 79 and 81: key['e'] or key['n'] raises KeyError.
MissingField(key) == key.e = -1 \/ key.n = -1

\* Lines 73-91: the first key of the set, decoded and serialised. An empty
\* set raises IndexError, a missing field KeyError.
decode ==
    /\ AtStep("decode")
    /\ IF Len(resp.keys) = 0
       THEN /\ Exit(1, "IndexError", <<>>)
            /\ UNCHANGED <<pem, idx, hpc>>
       ELSE IF MissingField(resp.keys[1])
       THEN /\ Exit(1, "KeyError", <<>>)
            /\ UNCHANGED <<pem, idx, hpc>>
       ELSE /\ pem' = PublicPem(resp.keys[1].n, resp.keys[1].e)
            /\ AfterStep(<<>>)
    /\ UNCHANGED <<dirs, cfgv, envv, optv, branch, resp>>
    /\ UNCHANGED <<wvars, rvars>>

\* A directory that exists is an error whatever exist_ok says.
FileExistsError_Strict(d, exist_ok) == d.exists

\* mkdir and os.makedirs raise FileExistsError for a directory that exists
\* unless exist_ok is true.
FileExistsError(d, exist_ok) == d.exists /\ ~exist_ok

\* A call mkdir(exist_ok=True) or os.makedirs(path, exist_ok=True) of the
\* running handler (lines 32, 45, 93, 134).
MkdirExistOk(path) ==
    IF FileExistsError(dirs[path], TRUE)
    THEN /\ Exit(1, "FileExistsError", <<Event("raise", idx, Steps(Handler)[hpc])>>)
         /\ UNCHANGED <<dirs, idx, hpc>>
    ELSE /\ dirs' = [dirs EXCEPT ![path] = Mkdir(@, umask)]
         /\ AfterStep(<<>>)

\* Lines 93 and 134: os.makedirs('/run/dcos/<service>', exist_ok=True).
makedirs ==
    /\ AtStep("makedirs")
    /\ MkdirExistOk(RunDir(Handler))
    /\ UNCHANGED <<cfgv, envv, optv, hndv>>
    /\ UNCHANGED <<wvars, rvars>>

\* Line 135: shutil.chown('/run/dcos/dcos-bouncer', user='dcos_bouncer').
chown_run ==
    /\ AtStep("chown_run")
    /\ dirs' = [dirs EXCEPT ![RunDir(Handler)].owner = UserOf(Handler)]
    /\ AfterStep(<<>>)
    /\ UNCHANGED <<cfgv, envv, optv, hndv>>
    /\ UNCHANGED <<wvars, rvars>>

\* Lines 31-33: _known_exec_directory().
_known_exec_directory ==
    /\ AtStep("exec_mkdir")
    /\ MkdirExistOk(ExecDir)
    /\ UNCHANGED <<cfgv, envv, optv, hndv>>
    /\ UNCHANGED <<wvars, rvars>>

\* Line 45: path.mkdir(exist_ok=True).
private_mkdir ==
    /\ AtStep("mkdir")
    /\ MkdirExistOk(PrivateDir(UserOf(Handler)))
    /\ UNCHANGED <<cfgv, envv, optv, hndv>>
    /\ UNCHANGED <<wvars, rvars>>

\* Line 46: path.chmod(0o700).
private_chmod ==
    /\ AtStep("chmod")
    /\ dirs' = [dirs EXCEPT ![PrivateDir(UserOf(Handler))].mode = PrivateMode]
    /\ AfterStep(<<>>)
    /\ UNCHANGED <<cfgv, envv, optv, hndv>>
    /\ UNCHANGED <<wvars, rvars>>

\* Line 47: shutil.chown(str(path), user=owner).
private_chown ==
    /\ AtStep("chown")
    /\ dirs' = [dirs EXCEPT ![PrivateDir(UserOf(Handler))].owner = UserOf(Handler)]
    /\ AfterStep(<<>>)
    /\ UNCHANGED <<cfgv, envv, optv, hndv>>
    /\ UNCHANGED <<wvars, rvars>>

\* The process's own call of the writer is writer 1.
Self == CHOOSE w \in Writers : \A v \in Writers : w <= v

\* Line 95: _write_file_bytes(pubkey_path, pubkey_pem_bytes, 0o644) is entered.
write_call ==
    /\ AtStep("write_call")
    /\ WCall(Self, pem, KeyFileMode)
    /\ AfterStep(<<Event("_write_file_bytes", idx, "")>>)
    /\ UNCHANGED <<dirs, cfgv, envv, optv, hndv>>
    /\ UNCHANGED rvars

\* Line 95: _write_file_bytes returns, or raises and nobody catches it.
write_return ==
    /\ AtStep("write_return")
    /\ \/ /\ wpc[Self] = "returned"
          /\ wpc' = [wpc EXCEPT ![Self] = "idle"]
          /\ AfterStep(<<>>)
       \/ /\ wpc[Self] = "raised"
          /\ Exit(1, wexc[Self], <<Event("raise", idx, "_write_file_bytes")>>)
          /\ UNCHANGED <<wpc, idx, hpc>>
    /\ UNCHANGED <<dirs, cfgv, envv, optv, hndv>>
    /\ UNCHANGED <<inodes, dest, tmps, prior, wdata, wmode, wtmp, wfd, wexc, worig, wrm>>
    /\ UNCHANGED rvars

\* The key file is left to root.
KeyOwner_Root == "root"

\* The owner dcos_adminrouter gives the key file (line 96).
KeyOwner == "dcos_adminrouter"

\* Line 96: shutil.chown(pubkey_path, user='dcos_adminrouter').
chown_file ==
    /\ AtStep("chown_file")
    /\ inodes' = [inodes EXCEPT ![dest].owner = KeyOwner]
    /\ AfterStep(<<>>)
    /\ UNCHANGED <<dirs, cfgv, envv, optv, hndv>>
    /\ UNCHANGED <<dest, tmps, prior, wpc, wdata, wmode, wtmp, wfd, wexc, worig, wrm>>
    /\ UNCHANGED rvars

\* The calls of a handler body that can raise (session, network and
\* filesystem errors); nothing catches the exception.
Raising == {"cluster_id", "requests_get", "makedirs", "chown_run", "exec_mkdir",
            "mkdir", "chmod", "chown", "chown_file"}

HandlerRaises ==
    /\ pc = "handler"
    /\ hpc >= 1
    /\ Steps(Handler)[hpc] \in Raising
    /\ Exit(1, "exception", <<Event("raise", idx, Steps(Handler)[hpc])>>)
    /\ UNCHANGED <<idx, hpc, dirs, cfgv, envv, optv, hndv>>
    /\ UNCHANGED <<wvars, rvars>>

\* Another process adds or removes one role marker while the run is in progress.
RolesChange ==
    /\ pc # "exited"
    /\ ~rolesEdited
    /\ \E r \in RoleNames :
         rolesDir' = IF r \in rolesDir THEN rolesDir \ {r} ELSE rolesDir \cup {r}
    /\ rolesEdited' = TRUE
    /\ UNCHANGED <<pc, idx, hpc, trace, exitStatus, dirs, cfgv, proxyEnv, envRead,
                   optv, hndv>>
    /\ UNCHANGED <<wvars, rvars>>

----------------------------------------------------------------------------
\* The state a run of the dispatcher starts in.

FreshDirs == [d \in DirNames |-> NoDir]
StaleDirs == [d \in DirNames |->
                 IF d = ExecDir THEN [exists |-> TRUE, mode |-> 457, owner |-> "root"]
                 ELSE [exists |-> TRUE, mode |-> 493, owner |-> "nobody"]]

\* What every run starts with.
MStart ==
    /\ pc = "parse_args"
    /\ rolesEdited = FALSE
    /\ proxyEnv \in {{}, {"HTTP_PROXY", "https_proxy"}}
    /\ envRead = {}
    /\ zkDefault = ""
    /\ zk = ""
    /\ idx = 0
    /\ hpc = 0
    /\ branch = "none"
    /\ trace = <<>>
    /\ exitStatus = -1
    /\ resp = NoResp
    /\ pem = <<>>

NoEnv == [n \in EnvNames |-> ""]

\* No dispatcher: the writer is called directly.
MNone ==
    /\ pc = "none"
    /\ uid = 0
    /\ umask = 18
    /\ services = <<>>
    /\ dirs = FreshDirs
    /\ dirs0 = dirs
    /\ rolesDir = {}
    /\ rolesEdited = FALSE
    /\ proxyEnv = {}
    /\ env = NoEnv
    /\ envRead = {}
    /\ masterList = <<>>
    /\ zkArg = ""
    /\ zkDefault = ""
    /\ zk = ""
    /\ idx = 0
    /\ hpc = 0
    /\ branch = "none"
    /\ trace = <<>>
    /\ exitStatus = -1
    /\ resp = NoResp
    /\ pem = <<>>

\* Writers racing on one path, a reader, and interruption at any step.
InitW == WInit /\ RInit /\ MNone

NextW ==
    \/ \E w \in Writers, n \in 0..MaxLen, m \in WriterModes :
          WCall(w, Buf(w, n), m) /\ UNCHANGED <<rvars, mvars>>
    \/ \E w \in Writers : WStep(w) /\ UNCHANGED <<rvars, mvars>>
    \/ \E w \in Writers : WKill(w) /\ UNCHANGED <<rvars, mvars>>
    \/ ROpen /\ UNCHANGED <<wvars, mvars>>
    \/ RRead /\ UNCHANGED <<wvars, mvars>>

SpecW == InitW /\ [][NextW]_vars

\* The actions of main and of the handlers.
MainStep ==
    \/ ParseArgs
    \/ ClearProxy
    \/ RoleCheck
    \/ ExhibitorWait
    \/ OpenSession
    \/ MainReturn
    \/ UnknownService
    \/ ApplyServiceConfiguration
    \/ Invoke

\* One run of the dispatcher over any list of services, as root or not, on a
\* fresh node or on one provisioned before, as master, as agent or without a
\* role.
Init ==
    /\ MStart /\ WInit /\ RInit
    /\ uid \in Uids
    /\ umask \in Umasks
    /\ services \in ServiceLists
    /\ dirs \in {FreshDirs, StaleDirs}
    /\ dirs0 = dirs
    /\ dest = 0 <=> dirs = FreshDirs
    /\ rolesDir \in {{}, {"master"}, {"slave"}}
    /\ env = NoEnv
    /\ masterList = <<>>
    /\ zkArg = ""

Next ==
    \/ MainStep
    \/ dcos_net
    \/ cluster_id
    \/ requests_get
    \/ decode
    \/ makedirs
    \/ chown_run
    \/ _known_exec_directory
    \/ private_mkdir
    \/ private_chmod
    \/ private_chown
    \/ write_call
    \/ WStep(Self) /\ UNCHANGED <<rvars, mvars>>
    \/ write_return
    \/ chown_file
    \/ HandlerRaises

Spec == Init /\ [][Next]_vars

\* The services whose handlers only use the session.
SessionServices == {"dcos-net", "dcos-signal", "bogus-service"}

\* One run of the dispatcher as root on a fresh node, for every role set,
\* environment, master list and --zk argument, while another process may
\* change the role-marker directory.
InitR ==
    /\ MStart /\ WInit /\ RInit
    /\ uid = 0
    /\ umask = 18
    /\ services \in UNION {[1..n -> SessionServices] : n \in 1..MaxServices}
    /\ dirs = FreshDirs
    /\ dirs0 = dirs
    /\ dest = 0
    /\ rolesDir \in SUBSET RoleNames
    /\ env \in [EnvNames -> MasterSourceValues \cup ExhibitorValues]
    /\ env["MASTER_SOURCE"] \in MasterSourceValues
    /\ env["EXHIBITOR_ADDRESS"] \in ExhibitorValues
    /\ masterList \in MasterLists
    /\ zkArg \in ZkOverrides

NextR ==
    \/ MainStep
    \/ dcos_net
    \/ cluster_id
    \/ HandlerRaises
    \/ RolesChange

SpecR == InitR /\ [][NextR]_vars

----------------------------------------------------------------------------
\* The atomic file writer.

\* What the destination path may show: what it held before any writer ran,
\* or the complete buffer of a call that has been entered.
Allowed == {prior} \cup {<<"data", wdata[w]>> : w \in {v \in Writers : wpc[v] # "idle"}}

\* C1: at every moment, under any interleaving with a reader and with the
\* writer interrupted at any step, the destination path shows its prior state
\* (absent or the complete old content) or exactly the complete data, to a
\* reader that opens it now and to one that opened it earlier; never a
\* truncated or partial file.
C1_DestinationOldOrComplete ==
    /\ DestContent \in Allowed
    /\ rseen \in Allowed \cup {<<"none">>}

\* C2: when _write_file_bytes has returned without raising, the file it put
\* at the destination holds exactly `data`, also when os.write accepted fewer
\* bytes than requested, and its permission bits are mode & 0o777.
C2_ReturnedFileIsData ==
    \A w \in Writers :
        (wpc[w] = "returned" /\ dest = wtmp[w]) =>
            /\ inodes[dest].data = wdata[w]
            /\ PermBits(inodes[dest].mode) = PermBits(wmode[w])

\* C3: when a step after the creation of the temporary file failed (write,
\* close, chmod or replace), the removal of the temporary file was attempted,
\* the call left the destination as it was, and the error that reaches the
\* caller is the error of the failing step, also when the removal failed.
C3_OriginalErrorReachesCaller ==
    \A w \in Writers :
        (wpc[w] = "raised" /\ worig[w] \in {"write", "close", "chmod", "replace"}) =>
            /\ wrm[w]
            /\ dest # wtmp[w]
            /\ wexc[w] = worig[w]

----------------------------------------------------------------------------
\* The dispatcher.

Registry == DOMAIN bootstrappers

\* Positions of the trace.
At(e) == {k \in 1..Len(trace) : trace[k].ev = e}
RolesAt(caller) == {k \in At("get_roles") : trace[k].a = caller}

\* What only a handler body does.
BodyEvents == {"cluster_id", "requests.get", "log.info", "_write_file_bytes",
               "raise", "handler_returned"}
IsBody(e) == e.ev \in BodyEvents \/ (e.ev = "get_roles" /\ e.i >= 1)

\* The gate has stopped the call at position k of the trace: the error is
\* logged and the process has exited with status 1, with nothing in between.
Gated(k) ==
    /\ Len(trace) = k + 2
    /\ trace[k + 1] = Event("log.error", trace[k].i, "bootstrap must be run as root")
    /\ trace[k + 2].ev = "exit"
    /\ pc = "exited"
    /\ exitStatus = 1

\* C4: for every name in the registry, the no-op services included, a call
\* of the registry entry by a process that is not root logs an error and
\* exits with status 1, and no part of the handler's body runs. The code
\* violates it: noop (line 165) is registered without @check_root.
C4_EveryEntryGated ==
    uid # 0 => \A k \in At("invoke") : Gated(k)

\* What the gate does achieve, the missing decorator on noop apart: a call
\* of a handler defined under @check_root by a process that is not root logs
\* an error and exits with status 1, and no session call, request or change
\* of a directory or of the key file is made by a process that is not root.
C4_DecoratedEntryGated ==
    uid # 0 =>
        /\ \A k \in At("invoke") : Decorated(bootstrappers[trace[k].a]) => Gated(k)
        /\ \A k \in 1..Len(trace) :
              IsBody(trace[k]) => trace[k] = Event("handler_returned", trace[k].i, trace[k].a)
                                  /\ ~Decorated(bootstrappers[trace[k].a])
        /\ hpc = 0
        /\ dirs = dirs0
        /\ DestContent = prior
        /\ tmps = {}

\* A process that is not root has passed a no-op service and is stopped at
\* the gate of dcos-bouncer.
C4_Witness ==
    /\ uid # 0
    /\ services = <<"dcos-marathon", "dcos-bouncer">>
    /\ \E k \in At("invoke") : trace[k].a = "dcos-bouncer" /\ Gated(k)
    /\ \E k \in At("handler_returned") : trace[k].a = "dcos-marathon"

Unknowns == {i \in 1..Len(services) : services[i] \notin Registry}
FirstUnknown == IF Unknowns = {} THEN Len(services) + 1
                ELSE CHOOSE i \in Unknowns : \A j \in Unknowns : i <= j

Provisioned(user) ==
    dirs[PrivateDir(user)] = [exists |-> TRUE, mode |-> PrivateMode, owner |-> user]

Configured(i) == \E k \in At("apply_service_configuration") : trace[k].i = i
Returned(i) == \E k \in At("handler_returned") : trace[k] = Event("handler_returned", i, services[i])

\* C5: main takes the names in the order given; at the first name that is not
\* in the registry it logs an error and exits with status 1, every known
\* service before it being configured and its handler returned (the
\* dcos-bouncer private directory then has mode 0700 and owner dcos_bouncer),
\* and nothing is configured or invoked for the unknown name or a later one.
C5_FailFastInOrder ==
    /\ \A k \in At("apply_service_configuration") :
          /\ trace[k].i = Cardinality({j \in At("apply_service_configuration") : j < k}) + 1
          /\ trace[k].a = services[trace[k].i]
    /\ \A k \in 1..Len(trace) :
          trace[k].i >= FirstUnknown => trace[k].ev \in {"log.error", "exit"}
    /\ idx <= FirstUnknown
    /\ exitStatus = 0 => Unknowns = {}
    /\ \A k \in At("log.error") :
          trace[k].a = "Unknown service" =>
              /\ trace[k].i = FirstUnknown
              /\ Len(trace) = k + 1
              /\ trace[k + 1].ev = "exit"
              /\ pc = "exited"
              /\ exitStatus = 1
              /\ \A j \in 1..(FirstUnknown - 1) :
                    /\ Configured(j)
                    /\ Returned(j)
                    /\ services[j] = "dcos-bouncer" => Provisioned("dcos_bouncer")

\* [dcos-bouncer, bogus-service] on a fresh node: the batch has aborted at
\* bogus-service with the bouncer directory provisioned.
C5_Witness ==
    /\ services = <<"dcos-bouncer", "bogus-service">>
    /\ dirs0 = FreshDirs
    /\ pc = "exited"
    /\ exitStatus = 1
    /\ \E k \in At("log.error") : trace[k] = Event("log.error", 2, "Unknown service")
    /\ Provisioned("dcos_bouncer")

AllHandled == \A i \in 1..Len(services) : Configured(i) /\ Returned(i)

\* The fatal conditions as the process meets them.
Fatal(e) ==
    \/ e.ev = "log.error"
    \/ e.ev = "raise"
    \/ e.ev = "requests.get" /\ e.a = "failed"
    \/ e.ev = "exit" /\ e.a # "return"

\* Once a fatal condition was met no service is configured or handled, be
\* it the offending one or a later one, and the exit status is 1.
FatalEndsBatch ==
    \A k \in 1..Len(trace) :
        Fatal(trace[k]) =>
            /\ pc = "exited"
            /\ exitStatus = 1
            /\ \A j \in (k + 1)..Len(trace) : trace[j].ev \in {"log.error", "log.info", "exit"}
            /\ \A j \in 1..Len(trace) : trace[j].i <= trace[k].i

\* C6: the exit status is 0 exactly when every requested service was looked
\* up, configured and handled; a process that is not root, as any other fatal
\* condition, ends the batch with a non-zero status, and nothing is
\* configured or handled after a fatal condition. The code violates it: a
\* process that is not root passes the ungated noop and exits with status 0.
C6_AnyFatalExitsNonZero ==
    /\ pc = "exited" => (exitStatus = 0 <=> AllHandled)
    /\ pc = "exited" /\ uid # 0 => exitStatus # 0
    /\ FatalEndsBatch

\* What the exit status does tell, the missing decorator on noop apart: it
\* is 0 exactly when every requested service was looked up, configured and
\* its handler returned; every fatal condition the process meets ends the
\* batch with status 1 and nothing is configured or handled after it; a
\* process that is not root exits 0 only when every requested service is
\* registered with noop.
C6_FatalEndsBatch ==
    /\ pc = "exited" => exitStatus \in {0, 1}
    /\ pc = "exited" => (exitStatus = 0 <=> AllHandled)
    /\ pc # "exited" => exitStatus = -1
    /\ FatalEndsBatch
    /\ (uid # 0 /\ exitStatus = 0) =>
          \A i \in 1..Len(services) : ~Decorated(bootstrappers[services[i]])

\* The second of two services raised an error in its handler: the first was
\* handled, the batch ended with status 1.
C6_Witness ==
    /\ Len(services) = 2
    /\ pc = "exited"
    /\ exitStatus = 1
    /\ Returned(1)
    /\ \E k \in At("raise") : trace[k].i = 2

\* The calls that go over the network.
NetworkEvents == {"exhibitor_wait", "Bootstrapper", "cluster_id", "requests.get"}

\* The part of the order of a run that does not concern the first read of
\* the role markers: the quorum wait happens exactly when the role set main
\* reads contains master and is over before the session is opened; nothing
\* goes over the network before the proxy variables are cleared; no service is
\* configured or invoked before the session is opened; each handler is invoked
\* right after its configuration was applied, and runs after it was invoked;
\* services are taken one after another.
Stages ==
    /\ \A k \in 1..Len(trace) :
          trace[k].ev \in NetworkEvents => \E j \in At("clear_proxy") : j < k
    /\ At("clear_proxy") # {} => proxyEnv = {}
    /\ \A k \in RolesAt("main") :
          /\ \E j \in At("clear_proxy") : j = k - 1
          /\ k = Len(trace) => pc = IF "master" \in trace[k].r THEN "wait" ELSE "open_session"
          /\ k < Len(trace) =>
                trace[k + 1].ev = IF "master" \in trace[k].r THEN "exhibitor_wait"
                                                              ELSE "Bootstrapper"
    /\ \A k \in At("exhibitor_wait") :
          /\ k - 1 \in RolesAt("main")
          /\ k = Len(trace) => pc = "open_session"
          /\ k < Len(trace) => trace[k + 1].ev = "Bootstrapper"
    /\ Cardinality(At("Bootstrapper")) <= 1
    /\ \A k \in 1..Len(trace) :
          trace[k].i >= 1 => \E j \in At("Bootstrapper") : j < k
    /\ \A k \in At("invoke") :
          trace[k - 1] = Event("apply_service_configuration", trace[k].i, trace[k].a)
    /\ \A k \in 1..Len(trace) :
          IsBody(trace[k]) => \E j \in At("invoke") : j < k /\ trace[j].i = trace[k].i
    /\ \A k \in At("apply_service_configuration") :
          IF trace[k].i = 1 THEN trace[k - 1].ev = "Bootstrapper"
          ELSE trace[k - 1] = Event("handler_returned", trace[k].i - 1, services[trace[k].i - 1])
    /\ \A k \in At("exit") :
          trace[k].a = "return" => /\ AllHandled
                                   /\ k = Len(trace)
                                   /\ trace[k - 1].ev \in {"handler_returned"}

\* C7 as stated: the order of the stages, with the proxy variables cleared
\* before the role markers are first read.
C7_ClearedBeforeRolesRead ==
    /\ Stages
    /\ \A k \in At("get_roles") : \E j \in At("clear_proxy") : j < k

\* C7 as amended: the role markers are first read by the address resolution
\* inside parse_args, before the proxy variables are cleared; then the proxy
\* variables are cleared, before main's role check and before any network
\* call; the rest of the order is as stated.
C7_LinearOrder ==
    /\ Stages
    /\ Len(trace) >= 1 => trace[1].ev = "get_roles" /\ trace[1].a = "get_zookeeper_address"
    /\ RolesAt("get_zookeeper_address") \subseteq {1}
    /\ At("clear_proxy") \subseteq {2}
    /\ RolesAt("main") \subseteq {3}

\* A master has waited for the quorum, opened the session, and handled a
\* service that calls the session; the run is over with status 0.
C7_Witness ==
    /\ pc = "exited"
    /\ exitStatus = 0
    /\ At("exhibitor_wait") # {}
    /\ At("cluster_id") # {}
    /\ Len(services) = 2

\* C8 as stated: the role set is read once; every decision of a run rests
\* on the same role set, whatever another process does to the directory.
C8_OneRoleSet ==
    \A j, k \in At("get_roles") : trace[j].r = trace[k].r

\* C8 as amended: the role-marker directory is listed anew at each decision
\* (in get_zookeeper_address, in main before the quorum wait, in the dcos-net
\* handler) and each decision rests on the listing its own call returned;
\* the decisions rest on one role set when the directory is not changed
\* between the reads.
C8_EachDecisionOnItsOwnRead ==
    /\ ~rolesEdited => \A k \in At("get_roles") : trace[k].r = rolesDir
    /\ \A k \in RolesAt("get_zookeeper_address") :
          zkDefault # "" => (zkDefault = Loopback <=> "master" \in trace[k].r)
    /\ \A k \in RolesAt("main") :
          /\ k = Len(trace) => (pc = "wait" <=> "master" \in trace[k].r)
          /\ k < Len(trace) =>
                (trace[k + 1].ev = "exhibitor_wait" <=> "master" \in trace[k].r)
    /\ \A k \in RolesAt("dcos_net") :
          /\ k = Len(trace) => (branch = "master" <=> "master" \in trace[k].r)
          /\ (k < Len(trace) /\ trace[k + 1].ev = "cluster_id") =>
                (trace[k + 1].a = "" <=> "master" \in trace[k].r)
    /\ Cardinality(RolesAt("get_zookeeper_address")) <= 1
    /\ Cardinality(RolesAt("main")) <= 1

\* The directory was changed during the run: main saw a master and waited
\* for the quorum, dcos-net saw none and derived the identifier read-only.
C8_Witness ==
    /\ rolesEdited
    /\ At("exhibitor_wait") # {}
    /\ \E k \in RolesAt("dcos_net") :
          /\ "master" \notin trace[k].r
          /\ k < Len(trace)
          /\ trace[k + 1] = Event("cluster_id", trace[k].i, "readonly")

\* The inode the key path held when the run started (0: none).
InitialDest == IF prior = <<"absent">> THEN 0 ELSE 1

\* The run has put a new file at the key path.
KeyReplaced == dest # InitialDest

PrivateUsers == {"dcos_bouncer", "dcos_cockroach"}

\* Handler h has returned in this run, and no later call of it is under way
\* or was cut short by an error.
Finished(h) ==
    /\ \E k \in At("handler_returned") : bootstrappers[trace[k].a] = h
    /\ ~(hpc >= 1 /\ Handler = h)

\* After a target was provisioned, stat reports the declared owner and mode.
ProvisionedStat ==
    /\ Finished("dcos_adminrouter") =>
          /\ dest # 0
          /\ inodes[dest].owner = "dcos_adminrouter"
          /\ inodes[dest].mode = KeyFileMode
    /\ Finished("dcos_bouncer") =>
          /\ Provisioned("dcos_bouncer")
          /\ dirs["/run/dcos/dcos-bouncer"].exists
          /\ dirs["/run/dcos/dcos-bouncer"].owner = "dcos_bouncer"
    /\ Finished("dcos_cockroach_config_change") => Provisioned("dcos_cockroach")

\* C9 as stated: after a target was provisioned stat reports the declared
\* owner and mode, and no observer racing the provisioning sees the key file
\* at its destination with the new content and an owner other than
\* dcos_adminrouter, or a private directory the run has created or changed
\* with a mode other than 0700 or an owner other than the named user.
C9_NeverInconsistent ==
    /\ ProvisionedStat
    /\ KeyReplaced => inodes[dest].owner = "dcos_adminrouter"
    /\ \A u \in PrivateUsers :
          dirs[PrivateDir(u)] # dirs0[PrivateDir(u)] => Provisioned(u)

\* C9 as amended: after a target was provisioned (its handler has returned
\* and no later provisioning of it is under way) stat of its path reports the
\* declared owner and mode, and the key file is never visible at its
\* destination with new content and a mode other than 0644. While the
\* provisioning is under way an observer can see the key file with the new
\* content and the owner root (until the chown of line 96), and a private
\* directory with the mode and owner it was created or found with (until the
\* chmod and chown of lines 46-47).
C9_ProvisionedStat ==
    /\ ProvisionedStat
    /\ KeyReplaced => inodes[dest].mode = KeyFileMode

\* dcos-adminrouter has replaced a key file that existed before and has
\* returned: the new file belongs to dcos_adminrouter.
C9_Witness ==
    /\ Finished("dcos_adminrouter")
    /\ prior # <<"absent">>
    /\ KeyReplaced
    /\ inodes[dest].owner = "dcos_adminrouter"
    /\ pc = "exited"

\* No session was opened and no service was processed: the run ended with
\* status 1 right after the listing of the roles.
FatalResolution ==
    /\ zkDefault = ""
    /\ pc = "exited"
    /\ exitStatus = 1
    /\ Len(trace) = 2
    /\ trace[2].ev = "exit"
    /\ idx = 0

\* C10: the address resolution applies its rules in order: a role set with
\* master gives 127.0.0.1:2181 whatever else it holds and MASTER_SOURCE and
\* EXHIBITOR_ADDRESS are never read; else a role set with slave or
\* slave_public gives the agent address, where the static list (one of its
\* entries, port appended; fatal when empty) comes before a supplied single
\* address, which comes before the five-host list; else the resolution is
\* fatal, no session is opened and no service is processed.
C10_AddressResolution ==
    /\ trace = <<>> => zkDefault = "" /\ envRead = {}
    /\ \A k \in At("Bootstrapper") : trace[k].a = IF zkArg = "" THEN zkDefault ELSE zkArg
    /\ \A k \in RolesAt("get_zookeeper_address") :
          LET R == trace[k].r
              ms == env["MASTER_SOURCE"]
              ea == env["EXHIBITOR_ADDRESS"]
          IN IF "master" \in R
             THEN zkDefault = "127.0.0.1:2181" /\ envRead = {}
             ELSE IF "slave" \in R \/ "slave_public" \in R
             THEN IF ms = "master_list"
                  THEN /\ envRead = {"MASTER_SOURCE"}
                       /\ IF masterList = <<>> THEN FatalResolution
                          ELSE zkDefault \in {masterList[j] \o ":2181" : j \in 1..Len(masterList)}
                  ELSE /\ envRead = {"MASTER_SOURCE", "EXHIBITOR_ADDRESS"}
                       /\ zkDefault = IF ea # "" THEN ea \o ":2181"
                                      ELSE "zk-1.zk:2181,zk-2.zk:2181,zk-3.zk:2181,zk-4.zk:2181,zk-5.zk:2181"
             ELSE FatalResolution /\ envRead = {}

\* An agent in static-list mode with a single address supplied as well: the
\* session is opened with the second entry of the list.
C10_Witness ==
    /\ "master" \notin rolesDir
    /\ ~rolesEdited
    /\ env["MASTER_SOURCE"] = "master_list"
    /\ env["EXHIBITOR_ADDRESS"] # ""
    /\ Len(masterList) = 2
    /\ zkDefault = masterList[2] \o ":2181"
    /\ \E k \in At("Bootstrapper") : trace[k].a = zkDefault

----------------------------------------------------------------------------
\* The key publication.

\* The answers the handler cannot publish a key from: a status other than
\* 200, an empty key set, a first key without modulus or exponent.
BadAnswer(r) ==
    \/ r.status # 200
    \/ Len(r.keys) = 0
    \/ r.keys[1].n = -1
    \/ r.keys[1].e = -1

\* The dcos-adminrouter handler runs and has not yet come to os.makedirs.
BeforeMakedirs ==
    /\ pc = "handler"
    /\ Handler = "dcos_adminrouter"
    /\ Steps(Handler)[hpc] \in {"cluster_id", "requests_get", "decode"}

\* The endpoint has given the running dcos-adminrouter handler an answer it
\* cannot publish a key from.
FetchFailed ==
    /\ resp # NoResp
    /\ BadAnswer(resp)

\* After such an answer the handler is at the decoding of the answer, or the
\* process has exited with status 1; no temporary file lies in the
\* destination directory and no call of the writer is under way.
FetchFailedEnds ==
    FetchFailed =>
        /\ \/ pc = "exited" /\ exitStatus = 1 /\ services[idx] = "dcos-adminrouter"
           \/ AtStep("decode") /\ Handler = "dcos_adminrouter" /\ resp.status = 200
        /\ tmps = {}
        /\ wpc[Self] = "idle"

\* C11: when the authority endpoint answers with a status other than 200,
\* with an empty key set, or with a first key that lacks the modulus or the
\* exponent, the dcos-adminrouter handler ends the process with exit status 1
\* and writes no file: from the call of the handler on, no step up to and
\* including the failing one changes the destination path, a file, or the
\* set of temporary files, and no temporary file is left.
C11_FailedFetchWritesNothing ==
    /\ []FetchFailedEnds
    /\ [][BeforeMakedirs => UNCHANGED <<dest, inodes, tmps, dirs>>]_vars

\* A key file existed, the endpoint answered with a first key that has no
\* modulus, and the process has exited with status 1: the old file is there.
C11_Witness ==
    /\ services = <<"dcos-adminrouter">>
    /\ prior = <<"data", OldContent>>
    /\ resp = [status |-> 200, keys |-> <<Key(-1, 3)>>]
    /\ pc = "exited"
    /\ exitStatus = 1
    /\ DestContent = prior
    /\ tmps = {}

----------------------------------------------------------------------------
\* The private directories.

\* The handler that provisions the private directory of a user.
HandlerOf(user) == IF user = "dcos_bouncer" THEN "dcos_bouncer"
                                           ELSE "dcos_cockroach_config_change"

\* The calls of the handler of `user` that have returned in this run.
ReturnedCalls(user) ==
    {k \in At("handler_returned") : bootstrappers[trace[k].a] = HandlerOf(user)}

\* C12: _create_private_directory is idempotent and convergent: a call for a
\* directory that exists (left by an earlier call with the same arguments, or
\* found with another mode or owner) raises no FileExistsError, and whenever a
\* first, second or later call has returned the directory exists with mode
\* exactly 0700 and the named user as owner, whatever it was before.
C12_IdempotentProvisioning ==
    /\ \A k \in At("exit") : trace[k].a # "FileExistsError"
    /\ \A u \in PrivateUsers :
          (ReturnedCalls(u) # {} /\ ~(pc = "handler" /\ Handler = HandlerOf(u))) =>
              dirs[PrivateDir(u)] = [exists |-> TRUE, mode |-> 448, owner |-> u]

\* dcos-bouncer was run twice on a node whose private directory existed with
\* mode 0755 and another owner: both calls returned and the directory is as
\* declared.
C12_Witness ==
    /\ services = <<"dcos-bouncer", "dcos-bouncer">>
    /\ dirs0 = StaleDirs
    /\ dirs0[PrivateDir("dcos_bouncer")].mode # 448
    /\ Cardinality(ReturnedCalls("dcos_bouncer")) = 2
    /\ pc = "exited"
    /\ exitStatus = 0
    /\ dirs[PrivateDir("dcos_bouncer")] =
          [exists |-> TRUE, mode |-> 448, owner |-> "dcos_bouncer"]

----------------------------------------------------------------------------
\* The static master list.

\* The agent resolver ran in static-list mode: the roles read by
\* get_zookeeper_address named an agent and no master, and MASTER_SOURCE is
\* master_list.
StaticListMode ==
    /\ env["MASTER_SOURCE"] = "master_list"
    /\ \E k \in RolesAt("get_zookeeper_address") : RoleRule(trace[k].r) = "agent"

\* The entries of a list, each with the coordination port appended.
WithPort(ml) == {ml[k] \o ":2181" : k \in 1..Len(ml)}

\* C13: in static-list mode the agent resolver returns one entry of the
\* master list with ":2181" appended: for a list of one entry always that
\* entry, for a list of N entries each of the N is a possible result and
\* nothing else is; an empty list is fatal (exit status 1), no address is
\* returned and no session is opened.
C13_StaticListChoice ==
    /\ StaticListMode =>
          IF Len(masterList) = 0
          THEN /\ pc = "exited"
               /\ exitStatus = 1
               /\ zkDefault = ""
               /\ At("Bootstrapper") = {}
          ELSE /\ zkDefault \in WithPort(masterList)
               /\ Len(masterList) = 1 => zkDefault = masterList[1] \o ":2181"
    /\ \A ml \in MasterLists :
          {p \o ":2181" : p \in Picks("master_list", ml)} = WithPort(ml)

\* A slave with a static list of two entries: the resolver has returned the
\* second one.
C13_Witness ==
    /\ StaticListMode
    /\ Len(masterList) = 2
    /\ zkDefault = masterList[2] \o ":2181"
    /\ zkDefault # masterList[1] \o ":2181"

----------------------------------------------------------------------------
\* Two writers racing on one destination.

\* Both invocations were entered, with different data.
Racing ==
    /\ \A w \in Writers : wpc[w] # "idle"
    /\ \A w, v \in Writers : w # v => wdata[w] # wdata[v]

\* C14: when two invocations of _write_file_bytes race on one destination
\* with different data, each works on its own temporary file; once both have
\* returned without raising, the destination is the file of the writer whose
\* rename came last and holds exactly that writer's complete data; and at no
\* moment of the race does a reader see anything but the prior content or
\* the complete data of one writer.
C14_LastWriterWins ==
    Racing =>
        /\ \A w, v \in Writers :
              (w # v /\ wtmp[w] # 0) => wtmp[w] # wtmp[v]
        /\ (\A w \in Writers : wpc[w] = "returned") =>
              \E w \in Writers : dest = wtmp[w] /\ inodes[dest].data = wdata[w]
        /\ rseen \in {<<"none">>, prior} \cup {<<"data", wdata[w]>> : w \in Writers}

----------------------------------------------------------------------------
\* The use of the session by the handlers.

\* The handler called for the service at position i of the list.
HandlerAt(i) == bootstrappers[services[i]]

\* The calls of b.cluster_id made for the service at position i.
ClusterIdCalls(i) == {k \in At("cluster_id") : trace[k].i = i}

\* The handlers that derive the identifier, and how.
AlwaysWritable == {"dcos_adminrouter", "dcos_signal", "dcos_telegraf_master"}
AlwaysReadOnly == {"dcos_telegraf_agent"}
NoSession == {"noop", "dcos_bouncer", "dcos_cockroach_config_change"}

\* C15: a handler uses the session only through b.cluster_id, at most once
\* per call, in the mode its role decides: dcos-net derives without readonly
\* if and only if the role set it has just read contains master, and with
\* readonly=True otherwise; dcos-telegraf-agent always derives read-only;
\* dcos-adminrouter, dcos-signal and dcos-telegraf-master never do; the
\* no-op handlers, dcos-bouncer and dcos-cockroach-config-change make no
\* call of the session; a handler that has returned and is not one of these
\* has made exactly one call.
C15_SessionUseByRole ==
    /\ \A k \in At("cluster_id") :
          LET h == HandlerAt(trace[k].i)
          IN /\ h \notin NoSession
             /\ trace[k].a \in {"", "readonly"}
             /\ h \in AlwaysWritable => trace[k].a = ""
             /\ h \in AlwaysReadOnly => trace[k].a = "readonly"
             /\ h = "dcos_net" =>
                   /\ trace[k - 1] = RolesEvent(trace[k].i, "dcos_net", trace[k - 1].r)
                   /\ trace[k].a = "" <=> "master" \in trace[k - 1].r
    /\ \A i \in 1..Len(services) :
          /\ Cardinality(ClusterIdCalls(i)) <= 1
          /\ (Returned(i) /\ HandlerAt(i) \notin NoSession) => ClusterIdCalls(i) # {}

\* An agent has run dcos-net and then dcos-telegraf-agent: both derived the
\* identifier read-only.
C15_Witness ==
    /\ services = <<"dcos-net", "dcos-telegraf-agent">>
    /\ rolesDir = {"slave"}
    /\ pc = "exited"
    /\ exitStatus = 0
    /\ \A i \in 1..2 : \E k \in ClusterIdCalls(i) : trace[k].a = "readonly"

----------------------------------------------------------------------------
\* The order of the key publication.

\* The events of the call of the handler for the service at position i.
EventsOf(i, e) == {k \in At(e) : trace[k].i = i}

\* The running dcos-adminrouter handler is at one of these steps.
AdminrouterAt(steps) ==
    /\ pc = "handler"
    /\ Handler = "dcos_adminrouter"
    /\ Steps(Handler)[hpc] \in steps

\* C16: in the dcos-adminrouter handler the cluster identifier is derived
\* before the request to the authority endpoint, the request is made exactly
\* once with no retry, and then the destination directory is made, the key
\* bytes are written through _write_file_bytes with mode 0644, and the file
\* is given to dcos_adminrouter, in this order; after a run that succeeded
\* the key file has mode 0644, owner dcos_adminrouter and a content equal to
\* the encoding of the first key of the fetched set.
C16_PublicationOrder ==
    /\ \A i \in 1..Len(services) :
          services[i] = "dcos-adminrouter" =>
              /\ Cardinality(EventsOf(i, "requests.get")) <= 1
              /\ \A k \in EventsOf(i, "requests.get") :
                    \E j \in EventsOf(i, "cluster_id") : j < k
              /\ \A k \in EventsOf(i, "_write_file_bytes") :
                    \E j \in EventsOf(i, "requests.get") : j < k /\ trace[j].a = "200"
              /\ Returned(i) =>
                    /\ Cardinality(EventsOf(i, "requests.get")) = 1
                    /\ Cardinality(EventsOf(i, "_write_file_bytes")) = 1
    /\ AdminrouterAt({"makedirs", "write_call", "write_return", "chown_file"}) =>
          pem = PublicPem(resp.keys[1].n, resp.keys[1].e)
    /\ AdminrouterAt({"write_call", "write_return", "chown_file"}) =>
          dirs["/run/dcos/dcos-adminrouter"].exists
    /\ AdminrouterAt({"makedirs", "write_call"}) => wpc[Self] = "idle"
    /\ AdminrouterAt({"chown_file"}) =>
          /\ wpc[Self] = "idle"
          /\ dest = wtmp[Self]
          /\ inodes[dest].mode = 420
    /\ Finished("dcos_adminrouter") =>
          /\ dest # 0
          /\ inodes[dest].mode = 420
          /\ inodes[dest].owner = "dcos_adminrouter"
          /\ inodes[dest].data = pem

----------------------------------------------------------------------------
\* The temporary files.

\* The call of writer w is over: it returned, raised, or was interrupted.
Over(w) == wpc[w] \in {"returned", "raised", "killed"}

\* The call of writer w raised after a failed write, close, chmod or replace
\* and its os.remove succeeded.
RaisedAndCleaned(w) ==
    /\ wpc[w] = "raised"
    /\ worig[w] \in {"write", "close", "chmod", "replace"}
    /\ wexc[w] # "remove"

\* The call of writer w raised because os.remove failed in the except clause.
CleanupFailed(w) == wpc[w] = "raised" /\ wexc[w] = "remove"

\* C17: whenever _write_file_bytes has returned, or has raised after a
\* failed write, close, chmod or replace whose cleanup deletion succeeded,
\* its temporary file is no longer in the destination directory; a temporary
\* file of a call that is over lies there only when the call was interrupted
\* or when its cleanup deletion failed, and every temporary file in the
\* directory is the file of one call.
C17_NoTemporaryLeftBehind ==
    /\ \A w \in Writers :
          /\ (wpc[w] = "returned" \/ RaisedAndCleaned(w)) => wtmp[w] \notin tmps
          /\ (Over(w) /\ wtmp[w] \in tmps) => (wpc[w] = "killed" \/ CleanupFailed(w))
    /\ \A t \in tmps : \E w \in Writers : wtmp[w] = t /\ wpc[w] # "returned"

\* One call raised after a failed os.replace and removed its temporary file,
\* the other returned: no temporary file is left.
C17_Witness ==
    /\ \E w \in Writers : RaisedAndCleaned(w) /\ worig[w] = "replace" /\ wtmp[w] # 0
    /\ \E w \in Writers : wpc[w] = "returned"
    /\ tmps = {}

----------------------------------------------------------------------------
\* What the provisioning of a private directory leaves alone.

\* The running handler is inside _create_private_directory (lines 45-47).
InCreatePrivateDirectory ==
    /\ pc = "handler"
    /\ Steps(Handler)[hpc] \in {"mkdir", "chmod", "chown"}

\* The running handler is h.
Running(h) == pc = "handler" /\ Handler = h

\* The directories other than d are the same after the step.
OnlyChanges(d) == \A o \in DirNames \ {d} : dirs'[o] = dirs[o]

\* A step of the process leaves alone what the provisioning does not own.
FrameStep ==
    /\ dirs[ExecDir].exists => dirs'[ExecDir] = dirs[ExecDir]
    /\ (~dirs[ExecDir].exists /\ dirs'[ExecDir].exists) =>
          /\ AtStep("exec_mkdir")
          /\ dirs'[ExecDir] = [exists |-> TRUE, mode |-> MkdirMode(umask), owner |-> "root"]
    /\ InCreatePrivateDirectory => OnlyChanges(ExecDir \o "/" \o UserOf(Handler))
    /\ AtStep("exec_mkdir") => OnlyChanges(ExecDir)
    /\ Running("dcos_bouncer") =>
          dirs'[ExecDir \o "/dcos_cockroach"] = dirs[ExecDir \o "/dcos_cockroach"]
    /\ Running("dcos_cockroach_config_change") =>
          dirs'[ExecDir \o "/dcos_bouncer"] = dirs[ExecDir \o "/dcos_bouncer"]
    /\ ~(Running("dcos_bouncer") \/ Running("dcos_cockroach_config_change")) =>
          \A u \in PrivateUsers : dirs'[ExecDir \o "/" \o u] = dirs[ExecDir \o "/" \o u]

\* C18: provisioning a private directory changes only that directory: the
\* shared base directory /var/lib/dcos/exec is created with the default mode
\* when missing and never changed when it exists, the dcos-bouncer handler
\* leaves the dcos_cockroach directory as it is and the
\* dcos-cockroach-config-change handler the dcos_bouncer directory, in any
\* order and number of runs; no other step of the process touches a private
\* directory.
C18_ProvisioningFrame ==
    /\ [](dirs0[ExecDir].exists => dirs[ExecDir] = dirs0[ExecDir])
    /\ [][FrameStep]_vars

\* Both handlers have run on a node where all the directories existed: both
\* private directories are provisioned, each for its own user, and the base
\* directory is as it was.
C18_Witness ==
    /\ services = <<"dcos-cockroach-config-change", "dcos-bouncer">>
    /\ dirs0 = StaleDirs
    /\ pc = "exited"
    /\ exitStatus = 0
    /\ dirs[ExecDir] = dirs0[ExecDir]
    /\ dirs[ExecDir].mode # 448
    /\ Provisioned("dcos_bouncer")
    /\ Provisioned("dcos_cockroach")
====
